---------------------------- MODULE Spec2Model ----------------------------
(***************************************************************************)
(* StorageService (src/services/storageService.ts): the snapshot store of  *)
(* Archive-OmniDash over the browser's IndexedDB engine.                   *)
(*                                                                         *)
(* The service is one object with one field, db.  Each public method       *)
(* awaits init() and then runs one transaction with one request.  The      *)
(* engine is modelled by what IndexedDB does with the calls the code       *)
(* makes: open requests on one database name are served one at a time, a   *)
(* version-change transaction runs onupgradeneeded when the stored version *)
(* is lower than the requested one, transactions on the one object store   *)
(* run one at a time in creation order, a request's success event fires    *)
(* before its transaction commits, and the engine may refuse an open, fail *)
(* a request or abort a commit.                                            *)
(*                                                                         *)
(* Ids are strings in the source; they are modelled by 1..MaxId, ordered   *)
(* as the engine orders keys.  A SavedSnapshot is its key path id, the     *)
(* indexed originalUrl (which also stands for the opaque payload) and      *)
(* savedAt.                                                                *)
(***************************************************************************)
EXTENDS Naturals, Integers, Sequences, FiniteSets, TLC

\* ------------------------------------------------------------- bounds
NumCallers == 2
MaxCalls == 3
MaxFaults == 1
MaxId == 2
MaxSavedAt == 2
\* the records a database left by an earlier page load may hold
MaxListId == 3
MaxListSavedAt == 3
MaxReads == 2
MaxLiveCalls == 2
MaxWbCalls == 2

\* --------------------------------------------------- program constants
DB_VERSION == 1
STORE_NAME == "snapshots"
IndexNames == {"timestamp", "originalUrl"}

Callers == 1..NumCallers
Ids == 1..MaxId
Urls == {"x", "y"}
SavedAts == 1..MaxSavedAt

SavedSnapshot == [id : Ids, originalUrl : Urls, savedAt : SavedAts]

\* `undefined`, in the shape of a record so that results compare
NoRecord == [id |-> 0, originalUrl |-> "", savedAt |-> 0]

VARIABLES
    db,             \* StorageService.db: 0 is null, n > 0 the n-th connection
    dbVersion,      \* engine: version of the database OmniDashDB, 0 = none
    schema,         \* engine: [stores, indexes] of the database
    upgrading,      \* engine: a version-change transaction is running
    connections,    \* engine: connections opened and never closed
    store,          \* engine: committed records of the object store, by key
    openQueue,      \* engine: callers whose open request is pending, in order
    micro,          \* callers whose init() has resolved, continuation pending
    txQueue,        \* engine: transactions in creation order
    pc,             \* per caller: position in its current call
    cur,            \* per caller: the call in progress [op, id, snap], and
                    \* the writes that had been reported when it was called
    last,           \* outcome of the call that settled most recently
    acked,          \* per id: the last write the service reported as done
    calls,          \* number of public calls issued
    faults,         \* number of engine failures so far
    openRequests,   \* number of indexedDB.open requests issued
    openSuccesses,  \* number of onsuccess events of open requests
    upgradeRuns,    \* number of onupgradeneeded events
    upgradeAborts,  \* number of version-change transactions rolled back
    storeCreations, \* number of createObjectStore calls
    wb              \* waybackService: the stored settings, the call in
                    \* progress on the archive's API and the last outcome

vars == <<db, dbVersion, schema, upgrading, connections, store, openQueue,
          micro, txQueue, pc, cur, last, acked, calls, faults, openRequests,
          openSuccesses, upgradeRuns, upgradeAborts, storeCreations, wb>>

\* the state of StorageService and of the engine under it
storageVars ==
    <<db, dbVersion, schema, upgrading, connections, store, openQueue,
      micro, txQueue, pc, cur, last, acked, calls, faults, openRequests,
      openSuccesses, upgradeRuns, upgradeAborts, storeCreations>>

engineVars == <<dbVersion, schema, upgrading, connections, store>>
counters == <<openRequests, openSuccesses, upgradeRuns, upgradeAborts,
              storeCreations>>

\* ------------------------------------------------------ pure operators

\* store.get(id): the record with that key, or undefined
Get(s, id) ==
    IF \E i \in 1..Len(s) : s[i].id = id
    THEN s[CHOOSE i \in 1..Len(s) : s[i].id = id]
    ELSE NoRecord

HasKey(s, id) == \E i \in 1..Len(s) : s[i].id = id

\* a delete that clears the object store
DeleteEveryRecord(s, id) == << >>

\* store.delete(id): every record but the one with that key
Delete(s, id) == SelectSeq(s, LAMBDA r : r.id # id)

\* an insert that keeps the record already stored under the key
PutKeepFirst(s, snapshot) ==
    IF HasKey(s, snapshot.id)
    THEN s
    ELSE SelectSeq(s, LAMBDA r : r.id < snapshot.id)
             \o <<snapshot>>
             \o SelectSeq(s, LAMBDA r : r.id > snapshot.id)

\* a store without a key path: put adds a record
PutAppend(s, snapshot) == Append(s, snapshot)

\* store.put(snapshot) under keyPath 'id': the record with the same key is
\* replaced whole; records stay in key order
Put(s, snapshot) ==
    SelectSeq(s, LAMBDA r : r.id < snapshot.id)
        \o <<snapshot>>
        \o SelectSeq(s, LAMBDA r : r.id > snapshot.id)

\* store.getAll(): all records in key order
GetAll(s) == s

\* the comparator with its operands swapped: oldest first
CompareAscending(a, b) == a.savedAt - b.savedAt

\* the comparator of results.sort: negative when a comes first
Compare(a, b) == b.savedAt - a.savedAt

\* an insertion that takes records with equal savedAt for duplicates and
\* keeps one of them
RECURSIVE InsertSortedDropEqual(_, _)
InsertSortedDropEqual(x, l) ==
    IF l = << >> THEN <<x>>
    ELSE IF Compare(Head(l), x) = 0
         THEN l
         ELSE IF Compare(Head(l), x) < 0
              THEN <<Head(l)>> \o InsertSortedDropEqual(x, Tail(l))
              ELSE <<x>> \o l

\* insertion of x into a list ordered by Compare, after its equals (the
\* engine's Array.prototype.sort is stable)
RECURSIVE InsertSorted(_, _)
InsertSorted(x, l) ==
    IF l = << >> THEN <<x>>
    ELSE IF Compare(Head(l), x) <= 0
         THEN <<Head(l)>> \o InsertSorted(x, Tail(l))
         ELSE <<x>> \o l

RECURSIVE Sort(_)
Sort(l) ==
    IF l = << >> THEN << >>
    ELSE InsertSorted(l[Len(l)], Sort(SubSeq(l, 1, Len(l) - 1)))

\* a requested version that is always ahead of the stored one
NeedsUpgradeAlways(current) == TRUE

\* whether the engine must run a version-change transaction for
\* indexedDB.open(DB_NAME, DB_VERSION) on a database at version `current`
NeedsUpgrade(current) == current < DB_VERSION

\* an upgrade handler that creates the object store without its indexes
UpgradeSchemaWithoutIndexes(sch) ==
    IF STORE_NAME \notin sch.stores
    THEN [stores |-> sch.stores \cup {STORE_NAME}, indexes |-> {}]
    ELSE sch

\* onupgradeneeded: the schema after the handler ran on schema sch
UpgradeSchema(sch) ==
    IF STORE_NAME \notin sch.stores
    THEN [stores |-> sch.stores \cup {STORE_NAME}, indexes |-> IndexNames]
    ELSE sch

\* ---------------------------------------------------------------- state

NoAck == [kind |-> "none", rec |-> NoRecord, replaced |-> FALSE]

NoAcks == [i \in Ids |-> NoAck]

NoCall == [op |-> "none", id |-> 0, snap |-> NoRecord, known |-> NoAcks]

NoOutcome ==
    [op |-> "none", id |-> 0, snap |-> NoRecord, status |-> "none",
     error |-> "none", fault |-> FALSE, rec |-> NoRecord, list |-> << >>,
     seen |-> << >>, known |-> NoAcks, ack |-> NoAcks]

NoUpgrade == [active |-> FALSE, oldVersion |-> 0,
              oldSchema |-> [stores |-> {}, indexes |-> {}]]

\* the calls a caller can make
CallInputs ==
    {[op |-> "saveSnapshot", id |-> s.id, snap |-> s, known |-> NoAcks] :
        s \in SavedSnapshot}
    \cup {[op |-> "getAllSnapshots", id |-> 0, snap |-> NoRecord,
           known |-> NoAcks]}
    \cup {[op |-> o, id |-> i, snap |-> NoRecord, known |-> NoAcks] :
            o \in {"getSnapshot", "deleteSnapshot"}, i \in Ids}

IsWrite(op) == op \in {"saveSnapshot", "deleteSnapshot"}

\* --------------------------------------------- waybackService.ts, values

\* localStorage.getItem('omnidash_settings'): null when nothing is stored,
\* else the stored text
NoItem == "null"
StoredSettings ==
    {NoItem, "", "{", "{}", "{\"demoMode\":false}", "{\"demoMode\":true}"}

\* JSON.parse(settings).demoMode: `thrown` when the text is not JSON
ParsedDemoMode(settings) ==
    CASE settings = "{}" -> "undefined"
      [] settings = "{\"demoMode\":false}" -> "false"
      [] settings = "{\"demoMode\":true}" -> "true"
      [] OTHER -> "thrown"

\* the credentials a caller can pass: empty or not
Keys == {"", "k"}

\* bodies of a response: empty, an HTML error page, a plain message, an
\* object, a table holding its header row only, a table holding one record
Bodies == {"", "<!DOCTYPE html>", "rate limited", "{}", "[h]", "[h,r]"}

\* res.json() parses the body or throws
JsonParses(body) == body \in {"{}", "[h]", "[h,r]"}

\* Array.isArray(json) and json.length: 0 stands for `not an array`
ArrayLength(body) ==
    CASE body = "[h]" -> 1
      [] body = "[h,r]" -> 2
      [] OTHER -> 0

\* what fetch() settles with: a rejection (failed), or a response with
\* res.ok, a JSON content-type or another, and a body
Responses ==
    {[failed |-> TRUE, ok |-> FALSE, json |-> FALSE, body |-> ""]}
    \cup [failed : {FALSE}, ok : BOOLEAN, json : BOOLEAN, body : Bodies]

NoResult ==
    [op |-> "none", accessKey |-> "", secretKey |-> "", demo |-> FALSE,
     sent |-> FALSE, status |-> "none", saved |-> FALSE, message |-> "",
     data |-> "none"]

\* no call in progress on the archive's API, nothing stored in localStorage
WbIdle ==
    [settings |-> NoItem, pc |-> "idle", op |-> "none", accessKey |-> "",
     secretKey |-> "", demo |-> FALSE, sent |-> FALSE, calls |-> 0,
     result |-> NoResult]

Init ==
    /\ db = 0
    /\ dbVersion = 0
    /\ schema = [stores |-> {}, indexes |-> {}]
    /\ upgrading = NoUpgrade
    /\ connections = 0
    /\ store = << >>
    /\ openQueue = << >>
    /\ micro = << >>
    /\ txQueue = << >>
    /\ pc = [c \in Callers |-> "idle"]
    /\ cur = [c \in Callers |-> NoCall]
    /\ last = NoOutcome
    /\ acked = NoAcks
    /\ calls = 0
    /\ faults = 0
    /\ openRequests = 0
    /\ openSuccesses = 0
    /\ upgradeRuns = 0
    /\ upgradeAborts = 0
    /\ storeCreations = 0
    /\ wb = WbIdle

\* the outcome a caller observes when its call settles
Outcome(call, status, error, fault, rec, list, seen, ack) ==
    [op |-> call.op, id |-> call.id, snap |-> call.snap, status |-> status,
     error |-> error, fault |-> fault, rec |-> rec, list |-> list,
     seen |-> seen, known |-> call.known, ack |-> ack]

Rejected(call, error, fault) ==
    Outcome(call, "rejected", error, fault, NoRecord, << >>, store, acked)

\* ------------------------------------------------------ init(), lines 10-31

\* init() without its guard: it never returns early
InitNeverReturnsEarly(d) == FALSE

\* init() that gave up opening: it returns early whatever the handle is
InitAlwaysReturnsEarly(d) == TRUE

\* init() with its guard inverted: it returns early on an unset handle
InitReturnsEarlyInverted(d) == d = 0

\* `if (this.db) return;`
InitReturnsEarly(d) == d # 0

\* A public method is called: it runs init() up to its first suspension.
\* With the handle set init() returns and the method's continuation is
\* queued as a microtask; otherwise init() issues an open request.
Call(c, call) ==
    /\ pc[c] = "idle"
    /\ calls < MaxCalls
    /\ calls' = calls + 1
    /\ cur' = [cur EXCEPT ![c] = [call EXCEPT !.known = acked]]
    /\ IF InitReturnsEarly(db)
       THEN /\ micro' = Append(micro, c)
            /\ pc' = [pc EXCEPT ![c] = "awaitInit"]
            /\ UNCHANGED <<openQueue, openRequests>>
       ELSE /\ openQueue' = Append(openQueue, c)
            /\ openRequests' = openRequests + 1
            /\ pc' = [pc EXCEPT ![c] = "opening"]
            /\ UNCHANGED micro
    /\ UNCHANGED wb
    /\ UNCHANGED <<db, engineVars, txQueue, last, acked, faults,
                   openSuccesses, upgradeRuns, upgradeAborts, storeCreations>>

\* init() rejecting with a value of its own in place of request.error
InitRejectedWithoutError(call) == Rejected(call, "notInitialized", FALSE)

\* `request.onerror = () => reject(request.error)`: the method awaiting
\* init() rejects with the engine's error
InitRejected(call) == Rejected(call, "open", TRUE)

\* The engine refuses the open request at the head of its queue:
\* request.onerror rejects init()'s promise, and the awaiting method with it.
OpenRefused(c) ==
    /\ micro = << >>
    /\ openQueue # << >> /\ Head(openQueue) = c
    /\ ~upgrading.active
    /\ faults < MaxFaults
    /\ faults' = faults + 1
    /\ openQueue' = Tail(openQueue)
    /\ last' = InitRejected(cur[c])
    /\ pc' = [pc EXCEPT ![c] = "idle"]
    /\ cur' = [cur EXCEPT ![c] = NoCall]
    /\ UNCHANGED wb
    /\ UNCHANGED <<db, engineVars, micro, txQueue, acked, calls, counters>>

\* The stored version is lower than the requested one and no connection is
\* open: the engine starts the version-change transaction and fires
\* onupgradeneeded, whose handler creates the object store and its indexes
\* unless the store is there.
UpgradeNeeded(c) ==
    /\ micro = << >>
    /\ openQueue # << >> /\ Head(openQueue) = c
    /\ ~upgrading.active
    /\ NeedsUpgrade(dbVersion)
    /\ connections = 0
    /\ upgrading' = [active |-> TRUE, oldVersion |-> dbVersion,
                     oldSchema |-> schema]
    /\ dbVersion' = DB_VERSION
    /\ schema' = UpgradeSchema(schema)
    /\ upgradeRuns' = upgradeRuns + 1
    /\ storeCreations' =
          storeCreations + (IF UpgradeSchema(schema) # schema THEN 1 ELSE 0)
    /\ UNCHANGED wb
    /\ UNCHANGED <<db, connections, store, openQueue, micro, txQueue, pc,
                   cur, last, acked, calls, faults, openRequests,
                   openSuccesses, upgradeAborts>>

\* The version-change transaction aborts: the engine rolls the database
\* back and fires request.onerror.
UpgradeAbort(c) ==
    /\ micro = << >>
    /\ openQueue # << >> /\ Head(openQueue) = c
    /\ upgrading.active
    /\ faults < MaxFaults
    /\ faults' = faults + 1
    /\ dbVersion' = upgrading.oldVersion
    /\ schema' = upgrading.oldSchema
    /\ upgrading' = NoUpgrade
    /\ upgradeAborts' = upgradeAborts + 1
    /\ openQueue' = Tail(openQueue)
    /\ last' = InitRejected(cur[c])
    /\ pc' = [pc EXCEPT ![c] = "idle"]
    /\ cur' = [cur EXCEPT ![c] = NoCall]
    /\ UNCHANGED wb
    /\ UNCHANGED <<db, connections, store, micro, txQueue, acked, calls,
                   openRequests, openSuccesses, upgradeRuns, storeCreations>>

\* request.onsuccess: `this.db = request.result; resolve();`
OpenSuccess(c) ==
    /\ micro = << >>
    /\ openQueue # << >> /\ Head(openQueue) = c
    /\ upgrading.active \/ ~NeedsUpgrade(dbVersion)
    /\ upgrading' = NoUpgrade
    /\ connections' = connections + 1
    /\ openSuccesses' = openSuccesses + 1
    /\ db' = connections + 1
    /\ openQueue' = Tail(openQueue)
    /\ micro' = <<c>>
    /\ pc' = [pc EXCEPT ![c] = "awaitInit"]
    /\ UNCHANGED wb
    /\ UNCHANGED <<dbVersion, schema, store, txQueue, cur, last, acked,
                   calls, faults, openRequests, upgradeRuns, upgradeAborts,
                   storeCreations>>

\* ------------------------------------- the four methods, lines 33-88

\* The continuation after `await this.init()`: the promise executor
\* rejects when the handle is unset, else creates the transaction and
\* places its one request.
AfterInit(c) ==
    /\ micro # << >> /\ Head(micro) = c
    /\ micro' = Tail(micro)
    /\ IF db = 0
       THEN /\ last' = Rejected(cur[c], "notInitialized", FALSE)
            /\ pc' = [pc EXCEPT ![c] = "idle"]
            /\ UNCHANGED txQueue
       ELSE /\ txQueue' = Append(txQueue,
                              [caller |-> c, call |-> cur[c],
                               state |-> "active"])
            /\ pc' = [pc EXCEPT ![c] = "awaitRequest"]
            /\ UNCHANGED last
    /\ cur' = [cur EXCEPT ![c] = NoCall]
    /\ UNCHANGED wb
    /\ UNCHANGED <<db, engineVars, openQueue, acked, calls, faults, counters>>

\* a delete that treats a missing key as an error
RequestFailsOnMissingDelete(call, s, fault) ==
    fault \/ (call.op = "deleteSnapshot" /\ ~HasKey(s, call.id))

\* a lookup that treats a missing key as an error
RequestFailsOnMissingGet(call, s, fault) ==
    fault \/ (call.op = "getSnapshot" /\ ~HasKey(s, call.id))

\* whether the engine fails the request of call `call` on contents s;
\* `fault` is the engine's own malfunction (quota, I/O)
RequestFails(call, s, fault) == fault

\* the contents a transaction's request leaves when it commits
Effect(s, call) ==
    CASE call.op = "saveSnapshot" -> Put(s, call.snap)
      [] call.op = "deleteSnapshot" -> Delete(s, call.id)
      [] OTHER -> s

\* the write a method reports as done when it resolves; `replaced` says
\* that it was called after a save of another record under the same id
\* had been reported
Ack(s, call, a) ==
    CASE call.op = "saveSnapshot" ->
            [a EXCEPT ![call.id] =
                [kind |-> "put", rec |-> call.snap,
                 replaced |-> /\ call.known[call.id].kind = "put"
                              /\ call.known[call.id].rec # call.snap]]
      [] call.op = "deleteSnapshot" ->
            [a EXCEPT ![call.id] =
                [kind |-> "delete", rec |-> NoRecord, replaced |-> FALSE]]
      [] OTHER -> a

\* what request.onsuccess passes to resolve
Resolved(call, s) ==
    Outcome(call, "resolved", "none", FALSE,
            IF call.op = "getSnapshot" THEN Get(s, call.id) ELSE NoRecord,
            IF call.op = "getAllSnapshots" THEN Sort(GetAll(s)) ELSE << >>,
            s, acked)

\* an error handler that drops the handle
DbResetOnRequestError(d) == 0

\* this.db after `request.onerror = () => reject(request.error)`
DbAfterRequestError(d) == d

\* The engine serves the request of the oldest transaction and fires
\* request.onsuccess: the method resolves.  A read-write transaction has
\* not committed yet; a read-only one has nothing to commit and is done.
RequestSuccess(c) ==
    /\ micro = << >>
    /\ txQueue # << >>
    /\ Head(txQueue).caller = c /\ Head(txQueue).state = "active"
    /\ ~RequestFails(Head(txQueue).call, store, FALSE)
    /\ txQueue' = IF IsWrite(Head(txQueue).call.op)
                  THEN <<[Head(txQueue) EXCEPT !.state = "finished"]>>
                           \o Tail(txQueue)
                  ELSE Tail(txQueue)
    /\ last' = Resolved(Head(txQueue).call, store)
    /\ acked' = Ack(store, Head(txQueue).call, acked)
    /\ pc' = [pc EXCEPT ![c] = "idle"]
    /\ UNCHANGED wb
    /\ UNCHANGED <<db, engineVars, openQueue, micro, cur, calls, faults,
                   counters>>

\* The engine fails the request of a method that sets no request.onerror:
\* the transaction aborts and the method's promise is never settled.
RequestErrorUnhandled(c) ==
    /\ micro = << >>
    /\ txQueue # << >>
    /\ Head(txQueue).caller = c /\ Head(txQueue).state = "active"
    /\ \E fault \in BOOLEAN :
          /\ fault => faults < MaxFaults
          /\ RequestFails(Head(txQueue).call, store, fault)
          /\ faults' = faults + (IF fault THEN 1 ELSE 0)
    /\ txQueue' = Tail(txQueue)
    /\ UNCHANGED wb
    /\ UNCHANGED <<db, engineVars, openQueue, micro, pc, cur, last, acked,
                   calls, counters>>

\* The engine fails the request: request.onerror rejects the method; the
\* error event is not cancelled, so the engine aborts the transaction.
RequestError(c) ==
    /\ micro = << >>
    /\ txQueue # << >>
    /\ Head(txQueue).caller = c /\ Head(txQueue).state = "active"
    /\ \E fault \in BOOLEAN :
          /\ fault => faults < MaxFaults
          /\ RequestFails(Head(txQueue).call, store, fault)
          /\ faults' = faults + (IF fault THEN 1 ELSE 0)
          /\ last' = Rejected(Head(txQueue).call, "request", fault)
    /\ txQueue' = Tail(txQueue)
    /\ db' = DbAfterRequestError(db)
    /\ pc' = [pc EXCEPT ![c] = "idle"]
    /\ UNCHANGED wb
    /\ UNCHANGED <<engineVars, openQueue, micro, cur, acked, calls, counters>>

\* The oldest transaction, its request served, commits.
TxCommit ==
    /\ micro = << >>
    /\ txQueue # << >>
    /\ Head(txQueue).state = "finished"
    /\ store' = Effect(store, Head(txQueue).call)
    /\ txQueue' = Tail(txQueue)
    /\ UNCHANGED wb
    /\ UNCHANGED <<db, dbVersion, schema, upgrading, connections, openQueue,
                   micro, pc, cur, last, acked, calls, faults, counters>>

\* The engine fails to commit a read-write transaction whose request it
\* had served: the transaction aborts and its write is rolled back.
TxAbort ==
    /\ micro = << >>
    /\ txQueue # << >>
    /\ Head(txQueue).state = "finished"
    /\ IsWrite(Head(txQueue).call.op)
    /\ faults < MaxFaults
    /\ faults' = faults + 1
    /\ txQueue' = Tail(txQueue)
    /\ UNCHANGED wb
    /\ UNCHANGED <<db, engineVars, openQueue, micro, pc, cur, last, acked,
                   calls, counters>>

Next ==
    \/ \E c \in Callers, call \in CallInputs : Call(c, call)
    \/ \E c \in Callers : OpenRefused(c)
    \/ \E c \in Callers : UpgradeNeeded(c)
    \/ \E c \in Callers : UpgradeAbort(c)
    \/ \E c \in Callers : OpenSuccess(c)
    \/ \E c \in Callers : AfterInit(c)
    \/ \E c \in Callers : RequestSuccess(c)
    \/ \E c \in Callers : RequestError(c)
    \/ TxCommit
    \/ TxAbort

Spec == Init /\ [][Next]_vars

\* ------------------------------------------- the engine always answers
\* The same program with at most MaxLiveCalls calls, run by an engine that
\* answers every open request and every transaction request, and by an
\* event loop that runs every queued microtask.

\* the engine answers the open request of c: error, upgrade or success
OpenAnswered(c) ==
    OpenRefused(c) \/ UpgradeNeeded(c) \/ UpgradeAbort(c) \/ OpenSuccess(c)

\* the engine answers the request of c's transaction
RequestAnswered(c) == RequestSuccess(c) \/ RequestError(c)

\* the engine ends a transaction whose request it has served
TxEnds == TxCommit \/ TxAbort

NextLive ==
    \/ \E c \in Callers, call \in CallInputs :
          calls < MaxLiveCalls /\ Call(c, call)
    \/ \E c \in Callers : OpenRefused(c)
    \/ \E c \in Callers : UpgradeNeeded(c)
    \/ \E c \in Callers : UpgradeAbort(c)
    \/ \E c \in Callers : OpenSuccess(c)
    \/ \E c \in Callers : AfterInit(c)
    \/ \E c \in Callers : RequestSuccess(c)
    \/ \E c \in Callers : RequestError(c)
    \/ TxCommit
    \/ TxAbort

Fairness ==
    /\ \A c \in Callers : WF_vars(OpenAnswered(c))
    /\ \A c \in Callers : WF_vars(AfterInit(c))
    /\ \A c \in Callers : WF_vars(RequestAnswered(c))
    /\ WF_vars(TxEnds)

SpecLive == Init /\ [][NextLive]_vars /\ Fairness

\* ------------------------------------------- a later load of the page
\* A new StorageService (db = null) in a browser whose database is either
\* absent or was created and filled by an earlier load of the page; the
\* page only reads.

ListSnapshot ==
    [id : 1..MaxListId, originalUrl : Urls, savedAt : 1..MaxListSavedAt]

\* the contents that n saveSnapshot calls can leave in the object store
RECURSIVE StoresAfter(_)
StoresAfter(n) ==
    IF n = 0 THEN {<< >>}
    ELSE LET prev == StoresAfter(n - 1)
         IN  prev \cup {Put(s, r) : s \in prev, r \in ListSnapshot}

ReadInputs ==
    {[op |-> "getAllSnapshots", id |-> 0, snap |-> NoRecord,
      known |-> NoAcks]}
    \cup {[op |-> "getSnapshot", id |-> i, snap |-> NoRecord,
           known |-> NoAcks] : i \in 1..MaxListId}

InitReopen ==
    /\ db = 0
    /\ \/ /\ dbVersion = 0
          /\ schema = [stores |-> {}, indexes |-> {}]
          /\ store = << >>
       \/ /\ dbVersion = DB_VERSION
          /\ schema = [stores |-> {STORE_NAME}, indexes |-> IndexNames]
          /\ store \in StoresAfter(MaxListId)
    /\ upgrading = NoUpgrade
    /\ connections = 0
    /\ openQueue = << >>
    /\ micro = << >>
    /\ txQueue = << >>
    /\ pc = [c \in Callers |-> "idle"]
    /\ cur = [c \in Callers |-> NoCall]
    /\ last = NoOutcome
    /\ acked = NoAcks
    /\ calls = 0
    /\ faults = 0
    /\ openRequests = 0
    /\ openSuccesses = 0
    /\ upgradeRuns = 0
    /\ upgradeAborts = 0
    /\ storeCreations = 0
    /\ wb = WbIdle

NextReopen ==
    \/ \E call \in ReadInputs : calls < MaxReads /\ Call(1, call)
    \/ OpenRefused(1)
    \/ UpgradeNeeded(1)
    \/ UpgradeAbort(1)
    \/ OpenSuccess(1)
    \/ AfterInit(1)
    \/ RequestSuccess(1)
    \/ RequestError(1)

SpecReopen == InitReopen /\ [][NextReopen]_vars

\* ------------------------------------------------- waybackService.ts
\* The three functions of the archive client.  One call is in progress at
\* a time; wb.demo is what isDemoMode() returned when it was made, wb.sent
\* whether it has sent a request; wb.result is the outcome of the call
\* that settled last.

\* isDemoMode(), lines 5-13
IsDemoMode(settings) ==
    IF settings = NoItem \/ settings = ""
    THEN FALSE
    ELSE IF ParsedDemoMode(settings) = "thrown"
         THEN FALSE
         ELSE ParsedDemoMode(settings) = "true"

\* a credentials check that fires only when both keys are empty
MissingBothCredentials(accessKey, secretKey) ==
    accessKey = "" /\ secretKey = ""

\* `!accessKey || !secretKey`
MissingCredentials(accessKey, secretKey) ==
    accessKey = "" \/ secretKey = ""

WbResult(status, saved, message, data) ==
    [op |-> wb.op, accessKey |-> wb.accessKey, secretKey |-> wb.secretKey,
     demo |-> wb.demo, sent |-> wb.sent, status |-> status,
     saved |-> saved, message |-> message, data |-> data]

\* what the timer of demo mode resolves with
MockResult ==
    IF wb.op = "savePageNow"
    THEN WbResult("resolved", TRUE, "Mock Mode", "none")
    ELSE WbResult("resolved", FALSE, "", "mock")

\* savePageNow after its fetch, lines 79-101
SavePageNowResult(resp) ==
    IF resp.failed
    THEN WbResult("rejected", FALSE, "fetch failed", "none")
    ELSE IF resp.ok
         THEN WbResult("resolved", TRUE, "Capture request submitted.",
                       "none")
         ELSE IF resp.body = "<!DOCTYPE html>"
              THEN WbResult("rejected", FALSE, "Capture failed (Status)",
                            "none")
              ELSE WbResult("rejected", FALSE,
                            IF resp.body # "" THEN resp.body
                            ELSE "Capture failed with status", "none")

\* checkAvailability after its fetch, lines 20-29: every failure is caught
\* and answered with mock data
CheckAvailabilityResult(resp) ==
    IF resp.failed \/ ~resp.ok \/ ~JsonParses(resp.body)
    THEN WbResult("resolved", FALSE, "", "mock")
    ELSE WbResult("resolved", FALSE, "", "remote")

\* fetchCDX after its fetch, lines 37-67
FetchCDXResult(resp) ==
    IF resp.failed \/ ~resp.ok
    THEN WbResult("resolved", FALSE, "", "mock")
    ELSE IF ~resp.json
         THEN IF resp.body = ""
              THEN WbResult("resolved", FALSE, "", "empty")
              ELSE WbResult("resolved", FALSE, "", "mock")
         ELSE IF ~JsonParses(resp.body)
              THEN WbResult("resolved", FALSE, "", "mock")
              ELSE IF ArrayLength(resp.body) > 1
                   THEN WbResult("resolved", FALSE, "", "remote")
                   ELSE WbResult("resolved", FALSE, "", "empty")

\* the Settings view stores other settings
SetSettings(settings) ==
    /\ settings # wb.settings
    /\ wb' = [wb EXCEPT !.settings = settings]
    /\ UNCHANGED storageVars

\* checkAvailability(url) or fetchCDX(url) up to its first suspension
Query(op) ==
    /\ wb.pc = "idle"
    /\ wb.calls < MaxWbCalls
    /\ wb' = [wb EXCEPT
                !.calls = @ + 1, !.op = op,
                !.accessKey = "", !.secretKey = "",
                !.demo = IsDemoMode(wb.settings),
                !.sent = ~IsDemoMode(wb.settings),
                !.pc = IF IsDemoMode(wb.settings) THEN "timer" ELSE "fetch"]
    /\ UNCHANGED storageVars

\* savePageNow(url, accessKey, secretKey) up to its first suspension, or
\* to its throw
SavePageNow(accessKey, secretKey) ==
    /\ wb.pc = "idle"
    /\ wb.calls < MaxWbCalls
    /\ LET called == [wb EXCEPT
                        !.calls = @ + 1, !.op = "savePageNow",
                        !.accessKey = accessKey, !.secretKey = secretKey,
                        !.demo = IsDemoMode(wb.settings), !.sent = FALSE]
       IN  IF IsDemoMode(wb.settings)
           THEN wb' = [called EXCEPT !.pc = "timer"]
           ELSE IF MissingCredentials(accessKey, secretKey)
                THEN wb' = [called EXCEPT
                              !.result =
                                 [NoResult EXCEPT
                                    !.op = "savePageNow",
                                    !.accessKey = accessKey,
                                    !.secretKey = secretKey,
                                    !.status = "rejected",
                                    !.message = "Missing Credentials"]]
                ELSE wb' = [called EXCEPT !.pc = "fetch", !.sent = TRUE]
    /\ UNCHANGED storageVars

\* the timer of demo mode fires
Timer ==
    /\ wb.pc = "timer"
    /\ wb' = [wb EXCEPT !.pc = "idle", !.result = MockResult]
    /\ UNCHANGED storageVars

\* fetch settles and the function runs to its end
Response(resp) ==
    /\ wb.pc = "fetch"
    /\ wb' = [wb EXCEPT
                !.pc = "idle",
                !.result =
                   CASE wb.op = "savePageNow" -> SavePageNowResult(resp)
                     [] wb.op = "checkAvailability" ->
                           CheckAvailabilityResult(resp)
                     [] OTHER -> FetchCDXResult(resp)]
    /\ UNCHANGED storageVars

NextWayback ==
    \/ \E settings \in StoredSettings : SetSettings(settings)
    \/ \E op \in {"checkAvailability", "fetchCDX"} : Query(op)
    \/ \E accessKey \in Keys, secretKey \in Keys :
          SavePageNow(accessKey, secretKey)
    \/ Timer
    \/ \E resp \in Responses : Response(resp)

SpecWayback == Init /\ [][NextWayback]_vars

\* ----------------------------------------------------------- properties

\* some call settled on this step
Settled == \E c \in Callers : pc[c] # "idle" /\ pc'[c] = "idle"

\* C1: once saveSnapshot(R) has resolved, a following getSnapshot(R.id)
\* with no write to R.id reported in between returns R in every field.
\* last.known is the last reported write per id when the lookup was
\* called, last.ack the same when it was served.
C1_RoundTrip ==
    (last.op = "getSnapshot" /\ last.status = "resolved"
        /\ last.known[last.id].kind = "put"
        /\ last.ack[last.id] = last.known[last.id])
    => last.rec = last.known[last.id].rec

\* C2: after saveSnapshot(R1) and then saveSnapshot(R2) under the same id
\* have resolved, getSnapshot of that id returns exactly R2, nothing of R1
\* survives, and the store holds one record under the id.
C2_ReplaceNoMerge ==
    (last.op = "getSnapshot" /\ last.status = "resolved"
        /\ last.known[last.id].kind = "put" /\ last.known[last.id].replaced
        /\ last.ack[last.id] = last.known[last.id])
    => /\ last.rec = last.known[last.id].rec
       /\ Cardinality({i \in 1..Len(last.seen) :
                          last.seen[i].id = last.id}) = 1

\* C3: whatever was saved and deleted, in whatever order, the list that
\* getAllSnapshots resolves with is ordered by savedAt descending.
\* Checked on every store contents that saves can leave (SpecReopen); it
\* holds under Spec as well, where the saves and deletes are calls.
C3_ListOrdered ==
    (last.op = "getAllSnapshots" /\ last.status = "resolved")
    => \A i \in 1..(Len(last.list) - 1) :
          last.list[i].savedAt >= last.list[i + 1].savedAt

\* three records with savedAt 1, 3, 2 in key order, listed as 3, 2, 1
C3_Witness ==
    /\ last.op = "getAllSnapshots" /\ last.status = "resolved"
    /\ Len(last.seen) = 3
    /\ <<last.seen[1].savedAt, last.seen[2].savedAt, last.seen[3].savedAt>>
          = <<1, 3, 2>>
    /\ <<last.list[1].savedAt, last.list[2].savedAt, last.list[3].savedAt>>
          = <<3, 2, 1>>

\* C4: once deleteSnapshot(a) has resolved and no later save of a has been
\* reported, getSnapshot(a) returns undefined, getAllSnapshots lists no
\* record with id a, and every other stored record is still listed.
C4_DeleteRemoves ==
    /\ (last.op = "getSnapshot" /\ last.status = "resolved"
           /\ last.known[last.id].kind = "delete"
           /\ last.ack[last.id] = last.known[last.id])
       => last.rec = NoRecord
    /\ (last.op = "getAllSnapshots" /\ last.status = "resolved")
       => \A a \in Ids :
             (last.known[a].kind = "delete" /\ last.ack[a] = last.known[a])
             => /\ \A i \in 1..Len(last.list) : last.list[i].id # a
                /\ \A i \in 1..Len(last.seen) :
                      last.seen[i].id # a
                      => \E j \in 1..Len(last.list) :
                            last.list[j] = last.seen[i]

\* a deleteSnapshot of an id without a record, settled without a fault of
\* the engine, has resolved
C5_MissSucceeds ==
    (last.op = "deleteSnapshot" /\ ~HasKey(last.seen, last.id)
        /\ ~last.fault)
    => last.status = "resolved"

\* the transaction of a deleteSnapshot ends leaving no record under its id
\* and every other record as it was, so on an id without a record it
\* changes nothing
C5_DeleteStep ==
    (/\ txQueue # << >>
     /\ Head(txQueue).call.op = "deleteSnapshot"
     /\ txQueue' = Tail(txQueue))
    => /\ ~HasKey(store, Head(txQueue).call.id) => store' = store
       /\ Head(txQueue).state = "finished" /\ faults' = faults
          => /\ ~HasKey(store', Head(txQueue).call.id)
             /\ \A i \in Ids :
                   i # Head(txQueue).call.id => Get(store', i) = Get(store, i)

\* C5: deleteSnapshot of an id that has no record resolves (it is never an
\* error) and leaves the collection unchanged; a delete leaves no record
\* under its id, so a second delete in a row meets the first case and
\* yields the same state and outcome.
C5_IdempotentDelete == [](C5_MissSucceeds) /\ [][C5_DeleteStep]_vars

\* a delete of an id whose last reported write was a delete too resolved
C5_Witness ==
    /\ last.op = "deleteSnapshot" /\ last.status = "resolved"
    /\ ~HasKey(last.seen, last.id)
    /\ last.ack[last.id].kind = "delete"

\* C6: on a store with no records getAllSnapshots resolves with the empty
\* sequence, and in any state getSnapshot of an id without a record
\* resolves with undefined; neither rejects unless the engine fails.
C6_MissIsNormal ==
    /\ (last.op = "getAllSnapshots" /\ last.seen = << >> /\ ~last.fault)
       => last.status = "resolved" /\ last.list = << >>
    /\ (last.op = "getSnapshot" /\ ~HasKey(last.seen, last.id)
           /\ ~last.fault)
       => last.status = "resolved" /\ last.rec = NoRecord

\* a lookup of an absent id in a store that holds another record
C6_Witness ==
    /\ last.op = "getSnapshot" /\ last.status = "resolved"
    /\ ~HasKey(last.seen, last.id)
    /\ last.seen # << >>
    /\ last.rec = NoRecord

\* an open request the engine cannot serve: it needs a version change
\* while a connection that never closes is open
OpenBlocked ==
    /\ openQueue # << >>
    /\ ~upgrading.active
    /\ NeedsUpgrade(dbVersion)
    /\ connections > 0

\* C7: when several calls race on a store that is not open, at most one
\* creation sequence runs (a further one only after the engine rolled an
\* earlier one back), the object store and its indexes are created at
\* most once in what the engine keeps, and no caller fails or hangs
\* because of the race.
C7_SingleCreation ==
    /\ upgradeRuns <= 1 + upgradeAborts
    /\ upgradeRuns - upgradeAborts <= 1
    /\ storeCreations <= upgradeRuns
    /\ schema.stores # {} => schema = [stores |-> {STORE_NAME},
                                       indexes |-> IndexNames]
    /\ ~OpenBlocked
    /\ last.error # "notInitialized"

\* two open requests were pending at once and both have succeeded
C7_Witness ==
    /\ openRequests >= 2
    /\ openSuccesses >= 2
    /\ upgradeRuns = 1
    /\ storeCreations = 1

\* C8: over any run the store issues at most one successful engine open
\* request and assigns the shared handle at most once.
C8_OpenedOnce == openSuccesses <= 1

\* C9: saveSnapshot reports success only after its transaction has
\* committed: no read-write transaction whose method has resolved
\* (state "finished") is still waiting to commit or abort.
C9_ResolveAfterCommit ==
    \A i \in 1..Len(txQueue) :
        txQueue[i].call.op = "saveSnapshot" => txQueue[i].state # "finished"

\* a step on which a write call fails leaves the records and the handle
\* as they were
C10_FailStep ==
    (Settled /\ last'.status = "rejected" /\ IsWrite(last'.op))
    => store' = store /\ db' = db

\* the records change only when a served write commits, and then by that
\* whole write
C10_WholeWrites ==
    store' # store
    => /\ txQueue # << >>
       /\ Head(txQueue).state = "finished"
       /\ store' = Effect(store, Head(txQueue).call)

\* C10: whenever a saveSnapshot or deleteSnapshot call fails the collection
\* is as it was before (the record under that id or its absence, and all
\* other records), the handle stays usable, and nothing but whole
\* committed writes ever reaches what readers see.
C10_FailedWriteNoEffect ==
    [][C10_FailStep /\ C10_WholeWrites]_vars

\* a save over an existing record failed; the record and handle remain
C10_Witness ==
    /\ last.op = "saveSnapshot" /\ last.status = "rejected"
    /\ last.error = "request"
    /\ HasKey(last.seen, last.id)
    /\ store = last.seen
    /\ db # 0

\* no version change is running on a database that is at DB_VERSION
AtSchemaVersion == dbVersion = DB_VERSION /\ ~upgrading.active

\* on a database already at DB_VERSION no step runs onupgradeneeded,
\* creates a store or index, or changes a persisted record
C11_ReopenStep ==
    AtSchemaVersion
    => /\ upgradeRuns' = upgradeRuns
       /\ storeCreations' = storeCreations
       /\ schema' = schema
       /\ dbVersion' = dbVersion
       /\ store' = store

\* a call on the re-opened database is rejected only when the engine
\* itself fails, and a lookup returns the persisted record as it is
C11_ReopenReads ==
    /\ last.status = "rejected" => last.fault
    /\ (last.op = "getSnapshot" /\ last.status = "resolved")
       => last.rec = Get(store, last.id)
    /\ (last.op = "getAllSnapshots" /\ last.status = "resolved")
       => /\ Len(last.list) = Len(store)
          /\ \A i \in 1..Len(store) :
                \E j \in 1..Len(last.list) : last.list[j] = store[i]

\* C11: a new process (handle unset) that opens the database an earlier
\* process created and filled, at the same schema version, does not
\* raise, does not re-run the creation of the store and its indexes, and
\* reads every persisted record unchanged.
C11_ReopenIdempotent == [](C11_ReopenReads) /\ [][C11_ReopenStep]_vars

\* the handle was opened on a database holding three records, without an
\* upgrade, and a lookup returned one of them
C11_Witness ==
    /\ db # 0 /\ openSuccesses = 1
    /\ upgradeRuns = 0 /\ storeCreations = 0
    /\ Len(store) = 3
    /\ last.op = "getSnapshot" /\ last.status = "resolved"
    /\ last.rec # NoRecord

\* a public method is called while the handle is set: its init() returns
\* at once (the method goes on in the next microtask) and issues no open
\* request; handle, schema, version and records stay as they are
C12_InitStep ==
    (db # 0 /\ calls' = calls + 1)
    => /\ openRequests' = openRequests
       /\ openQueue' = openQueue
       /\ \E c \in Callers :
             /\ pc[c] = "idle" /\ pc'[c] = "awaitInit"
             /\ micro' = Append(micro, c)
       /\ db' = db
       /\ schema' = schema /\ dbVersion' = dbVersion
       /\ connections' = connections
       /\ store' = store

\* C12: init on an already-open store is a no-op: it returns immediately,
\* issues no engine open request and leaves the handle, the schema and the
\* stored records unchanged.
C12_InitNoOp == [][C12_InitStep]_vars

\* a second call went through init() with the handle set: one open request
\* was ever issued and the caller is past init()
C12_Witness ==
    /\ db # 0
    /\ calls = 2 /\ openRequests = 1
    /\ \E c \in Callers : pc[c] = "awaitInit"

\* C13: when the engine answers every open request and every transaction
\* request, each call of saveSnapshot, getSnapshot, getAllSnapshots or
\* deleteSnapshot eventually resolves or rejects, also a call made while
\* an open is in progress and a call made after an open failed.
C13_EveryCallSettles ==
    \A c \in Callers : (pc[c] # "idle") ~> (pc[c] = "idle")

\* two calls were made, the open of one failed, the other opened the
\* database and resolved, and no call is pending
C13_Witness ==
    /\ \A c \in Callers : pc[c] = "idle"
    /\ calls = 2
    /\ openRequests = 2 /\ openSuccesses = 1 /\ faults = 1
    /\ last.status = "resolved"

\* the engine answers the oldest open request with an error
OpenFails ==
    /\ Len(openQueue') < Len(openQueue)
    /\ openSuccesses' = openSuccesses

\* when the engine refuses the open, the method that awaited it rejects
\* with the engine's error and returns no record; no transaction is
\* started, no record is read or written and the handle stays as it was
C14_FailStep ==
    OpenFails
    => /\ pc[Head(openQueue)] = "opening" /\ pc'[Head(openQueue)] = "idle"
       /\ last'.op = cur[Head(openQueue)].op
       /\ last'.status = "rejected"
       /\ last'.error = "open" /\ last'.fault
       /\ last'.rec = NoRecord /\ last'.list = << >>
       /\ txQueue' = txQueue
       /\ store' = store
       /\ acked' = acked
       /\ db' = db

\* C14: if the engine refuses to open the database, the public operation
\* called in that condition rejects with the engine's error, starts no
\* transaction, reads or writes no record, and no other storage is used.
C14_InitFailureSurfaced == [][C14_FailStep]_vars

\* a save was rejected with the engine's open error on an unset handle
\* and nothing was stored
C14_Witness ==
    /\ last.op = "saveSnapshot"
    /\ last.status = "rejected" /\ last.error = "open"
    /\ db = 0 /\ txQueue = << >> /\ store = << >>

\* the engine commits the oldest transaction on this step
Commits ==
    /\ txQueue # << >> /\ Head(txQueue).state = "finished"
    /\ txQueue' = Tail(txQueue)
    /\ faults' = faults

\* the record stored under an id changes only when a transaction on that
\* id commits, and a committing save leaves its own record there in full,
\* whatever save was committed before it
C15_CommitStep ==
    /\ \A i \in Ids :
          Get(store', i) # Get(store, i)
          => Commits /\ IsWrite(Head(txQueue).call.op)
                     /\ Head(txQueue).call.id = i
    /\ (Commits /\ Head(txQueue).call.op = "saveSnapshot")
       => Get(store', Head(txQueue).call.id) = Head(txQueue).call.snap

\* a lookup is served once every transaction created before its own has
\* committed or aborted, and returns the record stored at that moment
C15_ReadStep ==
    (Settled /\ last'.op = "getSnapshot" /\ last'.status = "resolved")
    => /\ Head(txQueue).call.op = "getSnapshot"
       /\ last'.rec = Get(store, last'.id)

\* with no engine fault, once every transaction has committed the record
\* under an id is the one of the save the engine served last
C15_LastServedStored ==
    (txQueue = << >> /\ faults = 0)
    => \A i \in Ids :
          /\ acked[i].kind = "put" => Get(store, i) = acked[i].rec
          /\ acked[i].kind = "delete" => Get(store, i) = NoRecord

\* C15: when two saveSnapshot calls for one id are in flight at the same
\* time, a getSnapshot(id) after both returns in full the record of the
\* transaction the engine committed last, never the record committed
\* earlier and never a mixture.
C15_LastCommitWins ==
    [](C15_LastServedStored) /\ [][C15_CommitStep /\ C15_ReadStep]_vars

\* a save of one record was called before any write to its id had been
\* reported and served after a save of another record under that id had
\* been reported; both committed and the store holds the later record
C15_Witness ==
    /\ last.op = "saveSnapshot" /\ last.status = "resolved"
    /\ last.known[last.id].kind = "none"
    /\ last.ack[last.id].kind = "put"
    /\ last.ack[last.id].rec # last.snap
    /\ txQueue = << >> /\ faults = 0
    /\ Get(store, last.id) = last.snap

\* every engine failure rejects, on the step it happens, the call it
\* belongs to, with the engine's error
C16_FaultStep ==
    faults' > faults
    => Settled /\ last'.status = "rejected" /\ last'.fault

\* a transaction is created only by a call coming out of init(), one per
\* call, and never by the store on its own after a failure
C16_OneTxStep ==
    Len(txQueue') > Len(txQueue)
    => /\ Len(txQueue') = Len(txQueue) + 1
       /\ \E c \in Callers :
             /\ pc[c] = "awaitInit" /\ pc'[c] = "awaitRequest"
             /\ txQueue'[Len(txQueue')].caller = c
             /\ txQueue'[Len(txQueue')].call = cur[c]

\* C16: every engine failure of a read or write surfaces to the caller as
\* a rejection carrying the engine's error, none is swallowed into a
\* success, and each public call issues at most one transaction with one
\* request: a failed request is never issued again by the store.
C16_FailuresPropagate == [][C16_FaultStep /\ C16_OneTxStep]_vars

\* no two entries of the list s carry the same id
UniqueIds(s) ==
    \A i, j \in 1..Len(s) : i # j => s[i].id # s[j].id

\* C17: in every reachable state, after any interleaving of saves and
\* deletes, the object store holds at most one record per id, so
\* getAllSnapshots never returns two records with the same id.
C17_IdUnique ==
    /\ UniqueIds(store)
    /\ UniqueIds(last.list)
    /\ \A k \in 1..Len(txQueue) :
          UniqueIds(Effect(store, txQueue[k].call))

\* a second save under an id replaced the first and the list returned
\* afterwards holds that one record
C17_Witness ==
    /\ last.op = "getAllSnapshots" /\ last.status = "resolved"
    /\ \E i \in Ids :
          /\ acked[i].kind = "put" /\ acked[i].replaced
          /\ last.list = <<acked[i].rec>>

\* the call that settled last was savePageNow with an empty key
EmptyKeySettled ==
    /\ wb.result.op = "savePageNow"
    /\ wb.result.accessKey = "" \/ wb.result.secretKey = ""

\* no request of a savePageNow call with an empty key is in flight
NoRequestWithEmptyKey ==
    (wb.op = "savePageNow" /\ (wb.accessKey = "" \/ wb.secretKey = ""))
    => wb.pc # "fetch" /\ ~wb.sent

\* C18 as stated: savePageNow fails with the credentials error whenever
\* accessKey or secretKey is empty, whatever the demo-mode setting, sends
\* no request and never returns saved = true.
C18_CredentialsAlwaysChecked ==
    /\ NoRequestWithEmptyKey
    /\ EmptyKeySettled
       => /\ wb.result.status = "rejected"
          /\ wb.result.message = "Missing Credentials"
          /\ ~wb.result.saved
          /\ ~wb.result.sent

\* C18, amended: with demo mode off savePageNow fails with the credentials
\* error whenever accessKey or secretKey is empty and never returns saved =
\* true; with demo mode on it returns the mock result saved = true; in
\* both cases it sends no request.
C18_CredentialsCheckedOutsideDemo ==
    /\ NoRequestWithEmptyKey
    /\ EmptyKeySettled
       => /\ ~wb.result.sent
          /\ ~wb.result.demo
             => /\ wb.result.status = "rejected"
                /\ wb.result.message = "Missing Credentials"
                /\ ~wb.result.saved
          /\ wb.result.demo
             => /\ wb.result.status = "resolved"
                /\ wb.result.saved
                /\ wb.result.message = "Mock Mode"

\* with demoMode stored as false, a capture called with an access key and
\* no secret key was rejected
C18_Witness ==
    /\ wb.settings = "{\"demoMode\":false}"
    /\ wb.pc = "idle"
    /\ wb.result.op = "savePageNow"
    /\ wb.result.accessKey = "k" /\ wb.result.secretKey = ""
    /\ wb.result.status = "rejected"

\* a transaction is created only by a method that has come out of init(),
\* on a handle that a successful open has set
C19_TxStep ==
    Len(txQueue') > Len(txQueue)
    => /\ db # 0 /\ openSuccesses >= 1
       /\ \E c \in Callers : pc[c] = "awaitInit" /\ pc'[c] = "awaitRequest"

\* a method is past init(), or holds a transaction, only with the handle
\* set by a successful open
C19_PastInit ==
    /\ \A c \in Callers :
          pc[c] \in {"awaitInit", "awaitRequest"}
          => db # 0 /\ openSuccesses >= 1
    /\ txQueue # << >> => db # 0 /\ openSuccesses >= 1

\* C19: each of saveSnapshot, getSnapshot, getAllSnapshots and
\* deleteSnapshot first awaits init(), and no transaction is ever started
\* while the handle is unset or the open has not yet succeeded.
C19_OpenPrecedesTx == [](C19_PastInit) /\ [][C19_TxStep]_vars

\* one caller holds a transaction on the opened database while the open
\* request of another is still pending
C19_Witness ==
    /\ db # 0
    /\ \E c, d \in Callers :
          /\ pc[c] = "awaitRequest" /\ pc[d] = "opening"
          /\ \E k \in 1..Len(txQueue) : txQueue[k].caller = c

\* C20: in every reachable state where the shared handle is set, so that
\* init() returns at once, the object store and both indexes (timestamp,
\* originalUrl) exist and no schema creation is pending.
C20_HandleInitialised ==
    db # 0
    => /\ schema = [stores |-> {STORE_NAME},
                    indexes |-> {"timestamp", "originalUrl"}]
       /\ dbVersion = DB_VERSION
       /\ ~upgrading.active

\* the handle was set by the open that created the schema and a later
\* call has returned from init() at once
C20_Witness ==
    /\ db # 0
    /\ upgradeRuns = 1 /\ storeCreations = 1
    /\ openRequests = 1
    /\ \E c \in Callers : pc[c] = "awaitInit" /\ micro = <<c>>
    /\ calls = 2

\* the number of entries of the list s equal to the record r
Occurrences(s, r) == Cardinality({i \in 1..Len(s) : s[i] = r})

\* C21: the list getAllSnapshots resolves with holds every record that is
\* in the object store when its request is served exactly once, each
\* unaltered, and nothing else: the sort only permutes what getAll read.
\* last.seen is the object store as the request read it.
C21_ListExact ==
    (last.op = "getAllSnapshots" /\ last.status = "resolved")
    => /\ Len(last.list) = Len(last.seen)
       /\ \A i \in 1..Len(last.seen) :
             Occurrences(last.list, last.seen[i]) = 1
       /\ \A j \in 1..Len(last.list) :
             Occurrences(last.seen, last.list[j]) = 1

\* three stored records, two of them with the same savedAt, were listed:
\* the list is not in key order and holds all three
C21_Witness ==
    /\ last.op = "getAllSnapshots" /\ last.status = "resolved"
    /\ Len(last.seen) = 3 /\ Len(last.list) = 3
    /\ last.seen[1].savedAt = last.seen[3].savedAt
    /\ last.seen[2].savedAt > last.seen[1].savedAt
    /\ last.list # last.seen

\* the oldest transaction is a served save or delete and ends on this step
WriteEnds ==
    /\ txQueue # << >>
    /\ Head(txQueue).state = "finished"
    /\ IsWrite(Head(txQueue).call.op)
    /\ txQueue' = Tail(txQueue)

\* the object store changes only when a save or delete ends, and then at
\* most under the id of that call: a save puts its record whole, a delete
\* removes the record, every other record stays as it was
C22_WriteStep ==
    store' # store
    => /\ WriteEnds
       /\ \A i \in Ids \ {Head(txQueue).call.id} :
             Get(store', i) = Get(store, i)
       /\ Get(store', Head(txQueue).call.id) =
             IF Head(txQueue).call.op = "saveSnapshot"
             THEN Head(txQueue).call.snap
             ELSE NoRecord

\* a step that serves a getSnapshot or getAllSnapshots request leaves the
\* object store as it is
C22_ReadStep ==
    (txQueue # << >> /\ ~IsWrite(Head(txQueue).call.op)
        /\ txQueue' = Tail(txQueue))
    => store' = store

\* C22: records change only by full replacement or delete of their own
\* id: saveSnapshot(R) and deleteSnapshot(x) leave every record with
\* another id unchanged, and getSnapshot and getAllSnapshots leave the
\* whole object store unchanged.
C22_FrameOfWrites == [][C22_WriteStep /\ C22_ReadStep]_vars

\* records were saved under both ids and the one under id 1 was deleted:
\* the record under id 2 is stored as it was saved
C22_Witness ==
    /\ acked[1].kind = "delete" /\ acked[2].kind = "put"
    /\ txQueue = << >>
    /\ store = <<acked[2].rec>>
    /\ last.op = "deleteSnapshot" /\ Len(last.seen) = 2

\* C23: once a successful open has set the shared handle, no operation,
\* success or failure resets it to unset or replaces it with another
\* handle for the rest of the process.
C23_HandleKept == [][db # 0 => db' = db]_vars

\* a failed open leaves the handle unset and the records as they are, and
\* a call made while the handle is unset issues an open request, also
\* after an open has failed
C24_RetryStep ==
    /\ (OpenFails /\ db = 0) => (db' = 0 /\ store' = store)
    /\ (calls' = calls + 1 /\ db = 0)
       => /\ openRequests' = openRequests + 1
          /\ Len(openQueue') = Len(openQueue) + 1
    /\ openSuccesses' > openSuccesses => (db' # 0 /\ store' = store)

\* after an open failure, a call that resolves went through an accepted
\* open and reads the persisted records as they are; a call is rejected
\* only by a failure of the engine, never because of the earlier one
C24_AfterFailure ==
    /\ last.status = "resolved" => (db # 0 /\ openSuccesses >= 1)
    /\ last.status = "rejected" => (last.fault /\ last.error # "notInitialized")
    /\ (last.status = "resolved" /\ last.op = "getSnapshot")
       => last.rec = Get(store, last.id)
    /\ (last.status = "resolved" /\ last.op = "getAllSnapshots")
       => Len(last.list) = Len(store)

\* C24: an init failure is not latched: after an open attempt fails the
\* handle remains unset and the next public operation attempts the open
\* again; once the engine accepts the open, that operation and the later
\* ones succeed with the previously persisted records intact.
C24_FailureNotLatched == [](C24_AfterFailure) /\ [][C24_RetryStep]_vars

\* the first open of a database holding three records failed, the next
\* call opened it and read one of the records
C24_Witness ==
    /\ faults = 1 /\ openRequests = 2 /\ openSuccesses = 1
    /\ upgradeAborts = 0
    /\ db # 0 /\ Len(store) = 3
    /\ last.op = "getSnapshot" /\ last.status = "resolved"
    /\ last.rec # NoRecord

\* C25: with demo mode off, checkAvailability and fetchCDX either return
\* data parsed from the remote response or fail: the call that settled
\* was rejected or carries what the response held, never mock data.
C25_NoMockOutsideDemo ==
    (wb.result.op \in {"checkAvailability", "fetchCDX"}
        /\ ~wb.result.demo /\ wb.result.status # "none")
    => /\ wb.result.sent
       /\ \/ wb.result.status = "rejected"
          \/ /\ wb.result.status = "resolved"
             /\ wb.result.data \in {"remote", "empty"}

=============================================================================
